---- MODULE Spec2Model ----
(***************************************************************************)
(* Tetra DNS record manager (DictXiong/Tetra).                             *)
(*                                                                         *)
(* Part 1: the record model and the reconciler cross_compare of            *)
(* src/tetra/dnsutils.py, exercised on bounded inputs (SpecCC).            *)
(* Part 2: the control flow of main / Tetra.run and the two provider       *)
(* backends of src/tetra/backends (Spec).                                  *)
(* Part 3: the bottom-layer and top-layer expanders of src/tetra/tetra.py  *)
(* and the validation that ends them (SpecExpand).                         *)
(***************************************************************************)
EXTENDS Integers, Sequences, FiniteSets, TLC

VARIABLES
    \* ---- reconciler harness (SpecCC) ----
    cc_phase,      \* "input" | "compared" | "applied" | "recompared"
    cc_old,        \* old_records handed to cross_compare (live records, with ids)
    cc_pending,    \* pending_records handed to cross_compare (id-less)
    cc_force,      \* the force argument
    cc_result,     \* [adding, updating, deleting] returned by the first call
    cc_old2,       \* the live set after the changeset was applied
    cc_result2,    \* result of the second call, on cc_old2
    \* ---- one run of main (Spec) ----
    pc,            \* "construct" | "parse" | "get" | "prompt" | "update" | "done" | "aborted"
    todo,          \* the domains main iterates over, in order
    cur,           \* position in todo of the domain being processed
    args,          \* [force, dry_run] of the command line
    config,        \* config_file: domain -> [backend, layer, expands, ans, seeds]
    provider,      \* domain -> records held by the DNS provider, in listing order
    nextId,        \* next record id the provider hands out
    pending,       \* pending of the running Tetra.run
    plan,          \* provider calls of the running update_records, in program order
    step,          \* position in plan of the next call
    calls,         \* provider calls issued so far in the run, failed ones included
    prompted,      \* domain -> the answer read by input(), "unasked" when no prompt
    changeset,     \* domain -> [adding, updating, deleting] computed by cross_compare
    fetched,       \* domain -> the list returned by get_records
    failure,       \* why the run aborted, "none" otherwise
    \* ---- record expansion on bounded configurations (SpecExpand) ----
    ex_phase,      \* "input" | "expanded"
    ex_config,     \* the domain configuration handed to the expander
    ex_out         \* [status, records]: what the expander returned or how it failed

ccVars == <<cc_phase, cc_old, cc_pending, cc_force, cc_result, cc_old2, cc_result2>>

runVars == <<pc, todo, cur, args, config, provider, nextId, pending, plan, step,
             calls, prompted, changeset, fetched, failure>>

exVars == <<ex_phase, ex_config, ex_out>>

vars == <<cc_phase, cc_old, cc_pending, cc_force, cc_result, cc_old2, cc_result2,
          pc, todo, cur, args, config, provider, nextId, pending, plan, step,
          calls, prompted, changeset, fetched, failure,
          ex_phase, ex_config, ex_out>>

(***************************************************************************)
(* Bounds                                                                  *)
(***************************************************************************)
MaxLive == 3
MaxPending == 2
\* provider records and candidate records of the first configured domain
RunMaxLive == 2
RunMaxPending == 2
\* SpecExpand: zone keys of one addresses map, mid-names of one host, record
\* values of one alias group, addresses of one family in a resolver answer,
\* records of one candidate list
MaxZoneItems == 2
MaxMidNames == 1
MaxTopRecords == 2
MaxResolved == 2
MaxCandidates == 2

(***************************************************************************)
(* Record model: dnsutils.py DNSRecord                                     *)
(***************************************************************************)
\* Python None for DNSRecord.line and DNSRecord.id
NoLine == "None"
NoId == 0

\* tetra.py:63-67
TTL_HOST == 43200
TTL_PERMA == 86400
TTL_EXT == 1
TTL_NET == 1
TTL_TOP == 600

\* tetra.py:68-72; the comment is <<prefix, generation timestamp>>
COMMENT_PREFIX_BOTTOM == "TETRAB"
COMMENT_PREFIX_TOP == "TETRAT"

DNSRecord(name, type, content, ttl, line, comment, id) ==
    [name |-> name, type |-> type, content |-> content, ttl |-> ttl,
     line |-> line, comment |-> comment, id |-> id]

\* DNSRecord.__eq__ with the comment compared as well (mutation)
EqWithComment(r, s) ==
    /\ r.name = s.name /\ r.type = s.type /\ r.content = s.content
    /\ r.ttl = s.ttl /\ r.line = s.line /\ r.comment = s.comment

\* DNSRecord.__eq__: name, type, content, ttl, line; comment and id ignored
Eq(r, s) ==
    /\ r.name = s.name /\ r.type = s.type /\ r.content = s.content
    /\ r.ttl = s.ttl /\ r.line = s.line

\* the type only
SimsByType(r, s) == r.type = s.type

\* DNSRecord.sims: name and type only
Sims(r, s) == r.name = s.name /\ r.type = s.type

(***************************************************************************)
(* Python list primitives used by cross_compare                            *)
(***************************************************************************)
\* del lst[i]
RemoveAt(lst, i) == [k \in 1..(Len(lst) - 1) |-> IF k < i THEN lst[k] ELSE lst[k + 1]]

\* nothing is ever found
ListContainsNothing(lst, record) == FALSE

\* `record in old_records`: some element == record
ListContains(lst, record) == \E k \in 1..Len(lst) : Eq(lst[k], record)

\* list.index by similarity instead of equality (mutation)
ListIndexSims(lst, record) ==
    CHOOSE k \in 1..Len(lst) :
        /\ Sims(lst[k], record)
        /\ \A j \in 1..(k - 1) : ~Sims(lst[j], record)

\* old_records.index(record): position of the first element == record
ListIndex(lst, record) ==
    CHOOSE k \in 1..Len(lst) :
        /\ Eq(lst[k], record)
        /\ \A j \in 1..(k - 1) : ~Eq(lst[j], record)

\* old_records.remove(i): delete the first element == i
ListRemove(lst, i) == RemoveAt(lst, ListIndex(lst, i))

(***************************************************************************)
(* cross_compare, dnsutils.py:66-97                                        *)
(***************************************************************************)
\* lines 72-80: the loop over enumerate(pending_records), from position index
RECURSIVE ExactPass(_, _, _, _, _)
ExactPass(old_records, pending_records, to_delete, index, force) ==
    IF index > Len(pending_records)
    THEN [old |-> old_records, pending |-> pending_records, to_delete |-> to_delete]
    ELSE LET record == pending_records[index] IN
         IF ListContains(old_records, record)
         THEN LET index_now == ListIndex(old_records, record) IN
              ExactPass(RemoveAt(old_records, index_now),
                        IF force
                        THEN [pending_records EXCEPT ![index].id = old_records[index_now].id]
                        ELSE pending_records,
                        IF force THEN to_delete ELSE Append(to_delete, index),
                        index + 1, force)
         ELSE ExactPass(old_records, pending_records, to_delete, index + 1, force)

\* lines 81-82: for index in reversed(to_delete): del pending_records[index];
\* k counts down the positions of to_delete
RECURSIVE DeleteReversed(_, _, _)
DeleteReversed(pending_records, to_delete, k) ==
    IF k = 0 THEN pending_records
    ELSE DeleteReversed(RemoveAt(pending_records, to_delete[k]), to_delete, k - 1)

\* the last i in old_records with record.sims(i), 0 when none
LastSims(old_records, record) ==
    IF \E k \in 1..Len(old_records) : Sims(record, old_records[k])
    THEN CHOOSE k \in 1..Len(old_records) :
            /\ Sims(record, old_records[k])
            /\ \A j \in (k + 1)..Len(old_records) : ~Sims(record, old_records[j])
    ELSE 0

\* lines 85-86: the first i in old_records with record.sims(i), 0 when none
FirstSims(old_records, record) ==
    IF \E k \in 1..Len(old_records) : Sims(record, old_records[k])
    THEN CHOOSE k \in 1..Len(old_records) :
            /\ Sims(record, old_records[k])
            /\ \A j \in 1..(k - 1) : ~Sims(record, old_records[j])
    ELSE 0

\* lines 84-92 without old_records.remove(i) (mutation)
RECURSIVE SimilarityPassKeep(_, _, _)
SimilarityPassKeep(old_records, pending_records, index) ==
    IF index > Len(pending_records)
    THEN [old |-> old_records, pending |-> pending_records]
    ELSE LET k == FirstSims(old_records, pending_records[index]) IN
         IF k = 0
         THEN SimilarityPassKeep(old_records, pending_records, index + 1)
         ELSE SimilarityPassKeep(old_records,
                  [pending_records EXCEPT ![index].id = old_records[k].id],
                  index + 1)

\* lines 84-92: every record still in pending_records, whether or not the
\* exact-match pass already gave it an id, adopts the first similar live record
RECURSIVE SimilarityPass(_, _, _)
SimilarityPass(old_records, pending_records, index) ==
    IF index > Len(pending_records)
    THEN [old |-> old_records, pending |-> pending_records]
    ELSE LET k == FirstSims(old_records, pending_records[index]) IN
         IF k = 0
         THEN SimilarityPass(old_records, pending_records, index + 1)
         ELSE SimilarityPass(ListRemove(old_records, old_records[k]),
                  [pending_records EXCEPT ![index].id = old_records[k].id],
                  index + 1)

IdIsNone(r) == r.id = NoId
IdIsNotNone(r) == r.id # NoId

\* lines 66-97 without the loop of lines 84-92
cross_compare_exact_only(old_records, pending_records, force) ==
    LET e == ExactPass(old_records, pending_records, <<>>, 1, force)
        p == DeleteReversed(e.pending, e.to_delete, Len(e.to_delete))
    IN  [adding   |-> SelectSeq(p, IdIsNone),
         updating |-> SelectSeq(p, IdIsNotNone),
         deleting |-> e.old]

\* lines 66-97
cross_compare(old_records, pending_records, force) ==
    LET e == ExactPass(old_records, pending_records, <<>>, 1, force)
        p == DeleteReversed(e.pending, e.to_delete, Len(e.to_delete))
        s == SimilarityPass(e.old, p, 1)
    IN  [adding   |-> SelectSeq(s.pending, IdIsNone),
         updating |-> SelectSeq(s.pending, IdIsNotNone),
         deleting |-> s.old]

(***************************************************************************)
(* Reconciler harness: cross_compare on bounded inputs, the changeset      *)
(* applied to the live set, and a second call on the outcome               *)
(***************************************************************************)
\* Names and contents are sequences of labels: "web.0" is <<"web", "0">>, the
\* apex marker is <<"@">>, a trailing dot is a last empty label, and an IP
\* literal is one label.
IP1 == <<"10.0.0.1">>
IP2 == <<"10.0.0.2">>
HostName == <<"web", "0", "example.com", "">>

\* (name, type, content, ttl, line) combinations the inputs are drawn from:
\* a base record and one variant per compared field
CCFields ==
    { [name |-> <<"a">>, type |-> "A",     content |-> IP1,      ttl |-> TTL_EXT, line |-> NoLine],
      [name |-> <<"a">>, type |-> "A",     content |-> IP2,      ttl |-> TTL_EXT, line |-> NoLine],
      [name |-> <<"a">>, type |-> "A",     content |-> IP1,      ttl |-> TTL_TOP, line |-> NoLine],
      [name |-> <<"a">>, type |-> "A",     content |-> IP1,      ttl |-> TTL_EXT, line |-> "tel"],
      [name |-> <<"a">>, type |-> "CNAME", content |-> HostName, ttl |-> TTL_EXT, line |-> NoLine],
      [name |-> <<"b">>, type |-> "A",     content |-> IP1,      ttl |-> TTL_EXT, line |-> NoLine] }

SeqsUpTo(S, n) == UNION { [1..k -> S] : k \in 0..n }

\* the comment of a generation: ownership prefix and timestamp (tetra.py:70-72)
Comment(prefix, stamp) == <<prefix, stamp>>

\* a record list built from field tuples; live records get the ids base+1, base+2, ...
WithIds(fs, comment, base) ==
    [k \in 1..Len(fs) |->
        DNSRecord(fs[k].name, fs[k].type, fs[k].content, fs[k].ttl, fs[k].line, comment, base + k)]

WithoutIds(fs, comment) ==
    [k \in 1..Len(fs) |->
        DNSRecord(fs[k].name, fs[k].type, fs[k].content, fs[k].ttl, fs[k].line, comment, NoId)]

Fields(r) == [name |-> r.name, type |-> r.type, content |-> r.content, ttl |-> r.ttl, line |-> r.line]

IdsOf(lst) == { lst[k].id : k \in 1..Len(lst) }

MaxId(lst) == IF Len(lst) = 0 THEN 0
              ELSE CHOOSE m \in IdsOf(lst) : \A x \in IdsOf(lst) : x <= m

\* The changeset applied to a live list the way the provider applies it:
\* an update rewrites the record with that id, a delete removes the record
\* with that id, a create appends a record under a fresh id
ApplyUpdates(lst, updating) ==
    [k \in 1..Len(lst) |->
        IF \E u \in 1..Len(updating) : updating[u].id = lst[k].id
        THEN updating[CHOOSE u \in 1..Len(updating) :
                 /\ updating[u].id = lst[k].id
                 /\ \A w \in 1..(u - 1) : updating[w].id # lst[k].id]
        ELSE lst[k]]

ApplyDeletes(lst, deleting) ==
    LET Kept(r) == r.id \notin IdsOf(deleting) IN SelectSeq(lst, Kept)

ApplyCreates(lst, adding, base) ==
    lst \o [k \in 1..Len(adding) |-> [adding[k] EXCEPT !.id = base + k]]

ApplyChangeset(lst, res) ==
    ApplyCreates(ApplyDeletes(ApplyUpdates(lst, res.updating), res.deleting),
                 res.adding, MaxId(lst))

EmptyResult == [adding |-> <<>>, updating |-> <<>>, deleting |-> <<>>]

\* no expansion is in progress
ExIdle ==
    /\ ex_phase = "idle"
    /\ ex_config = <<>>
    /\ ex_out = [status |-> "idle", records |-> <<>>]

\* no run of main is in progress
RunIdle ==
    /\ pc = "idle" /\ todo = <<>> /\ cur = 0
    /\ args = [force |-> FALSE, dry_run |-> FALSE]
    /\ config = <<>> /\ provider = <<>> /\ nextId = 0
    /\ pending = <<>> /\ plan = <<>> /\ step = 0 /\ calls = <<>>
    /\ prompted = <<>> /\ changeset = <<>> /\ fetched = <<>>
    /\ failure = "none"

CCInit ==
    /\ RunIdle
    /\ ExIdle
    /\ cc_phase = "input"
    /\ \E fs \in SeqsUpTo(CCFields, MaxLive) :
          cc_old = WithIds(fs, Comment(COMMENT_PREFIX_BOTTOM, "t0"), 0)
    /\ \E fs \in SeqsUpTo(CCFields, MaxPending) :
          cc_pending = WithoutIds(fs, Comment(COMMENT_PREFIX_BOTTOM, "t1"))
    /\ cc_force \in BOOLEAN
    /\ cc_result = EmptyResult
    /\ cc_old2 = <<>>
    /\ cc_result2 = EmptyResult

\* tetra.py:334, first run
CCCompare ==
    /\ cc_phase = "input"
    /\ cc_result' = cross_compare(cc_old, cc_pending, cc_force)
    /\ cc_phase' = "compared"
    /\ UNCHANGED <<cc_old, cc_pending, cc_force, cc_old2, cc_result2>>
    /\ UNCHANGED runVars
    /\ UNCHANGED exVars

\* the changeset of the first run reaches the provider
CCApply ==
    /\ cc_phase = "compared"
    /\ cc_old2' = ApplyChangeset(cc_old, cc_result)
    /\ cc_phase' = "applied"
    /\ UNCHANGED <<cc_old, cc_pending, cc_force, cc_result, cc_result2>>
    /\ UNCHANGED runVars
    /\ UNCHANGED exVars

\* the pending list of the next run: same configuration, a new timestamp
Regenerated(lst, comment) ==
    [k \in 1..Len(lst) |-> [lst[k] EXCEPT !.comment = comment]]

\* tetra.py:334, second run with the configuration unchanged
CCCompareAgain ==
    /\ cc_phase = "applied"
    /\ cc_result2' = cross_compare(cc_old2,
                         Regenerated(cc_pending, Comment(COMMENT_PREFIX_BOTTOM, "t2")),
                         cc_force)
    /\ cc_phase' = "recompared"
    /\ UNCHANGED <<cc_old, cc_pending, cc_force, cc_result, cc_old2>>
    /\ UNCHANGED runVars
    /\ UNCHANGED exVars

CCNext == CCCompare \/ CCApply \/ CCCompareAgain

SpecCC == CCInit /\ [][CCNext]_vars

(***************************************************************************)
(* Validation: dnsutils.py assert_valid, assert_cname_unique               *)
(***************************************************************************)
\* the literals ipaddress.ip_address parses: canonical IPv4 and IPv6 texts and
\* one IPv6 text in capitals
IPv4Literals == { "10.0.0." \o ToString(k) : k \in 1..9 }
IPv6Literals == { "fd00::" \o ToString(k) : k \in 1..9 } \cup { "FD00::1" }

\* ipaddress.ip_address(content).version == 4 / == 6
IsIPv4(content) == Len(content) = 1 /\ content[1] \in IPv4Literals
IsIPv6(content) == Len(content) = 1 /\ content[1] \in IPv6Literals

\* str.endswith('.')
EndsWithDot(labels) == Len(labels) > 0 /\ labels[Len(labels)] = ""

\* only the name and the CNAME rules are checked, the address contents are not
assert_valid_names_only(r) ==
    /\ ~EndsWithDot(r.name)
    /\ r.type = "CNAME" => (r.name # <<"@">> /\ EndsWithDot(r.content))

\* DNSRecord.assert_valid, dnsutils.py:31-46; TRUE when nothing is raised
assert_valid(r) ==
    /\ ~EndsWithDot(r.name)
    /\ r.type = "CNAME" => (r.name # <<"@">> /\ EndsWithDot(r.content))
    /\ r.type = "A" => IsIPv4(r.content)
    /\ r.type = "AAAA" => IsIPv6(r.content)

\* assert_cname_unique, dnsutils.py:115-120; TRUE when nothing is raised
assert_cname_unique(records) ==
    ~\E i, j \in 1..Len(records) :
        /\ records[i].type = "CNAME"
        /\ records[i].name = records[j].name
        /\ records[i].line = records[j].line
        /\ ~Eq(records[i], records[j])

\* tetra.py:243-246 / 317-320: add the trailing dot to CNAME content
AppendCnameDot(r) ==
    IF r.type = "CNAME" /\ ~EndsWithDot(r.content)
    THEN [r EXCEPT !.content = Append(@, "")]
    ELSE r

AppendCnameDots(ans) == [k \in 1..Len(ans) |-> AppendCnameDot(ans[k])]

\* tetra.py:247-250 / 321-324
Validates(ans) ==
    /\ assert_cname_unique(ans)
    /\ \A k \in 1..Len(ans) : assert_valid(ans[k])

(***************************************************************************)
(* Provider backends: backends/cloudflare.py, backends/dnspod.py           *)
(***************************************************************************)
\* the DNSPod default line, "默认" in dnspod.py:41,65,84
DefaultLine == "default"

\* What the provider stores for a record the client sends.  Cloudflare keeps
\* the fully-qualified name, no trailing dot on CNAME content and no line;
\* DNSPod keeps the relative name and a line that is never absent.
StripDot(labels) == IF EndsWithDot(labels) THEN SubSeq(labels, 1, Len(labels) - 1) ELSE labels

ToNative(backend, domain, r, id) ==
    IF backend = "cloudflare"
    THEN [r EXCEPT !.name = IF r.name = <<"@">> THEN <<domain>> ELSE r.name \o <<domain>>,
                   !.content = IF r.type = "CNAME" THEN StripDot(r.content) ELSE r.content,
                   !.line = NoLine,
                   !.id = id]
    ELSE [r EXCEPT !.line = IF r.line = NoLine THEN DefaultLine ELSE r.line,
                   !.id = id]

\* `if record.comment:` alone, without the prefix test (mutation)
HasComment(prefix, comment) == Len(comment) > 0

\* cloudflare.py:36, dnspod.py:34: record.comment and self.prefix in record.comment
HasPrefix(prefix, comment) ==
    Len(comment) > 0 /\ \E k \in 1..Len(comment) : comment[k] = prefix

\* cloudflare.py:40-42: record.name.replace(f".{domain}", ""), the apex becomes "@"
CloudflareName(name, domain) ==
    LET NotDomain(label) == label # domain
        stripped == IF Len(name) = 0 THEN name
                    ELSE <<Head(name)>> \o SelectSeq(Tail(name), NotDomain)
    IN  IF stripped = <<domain>> THEN <<"@">> ELSE stripped

\* cloudflare.py:37-53: one listed record as a DNSRecord
CloudflareRecord(domain, r) ==
    DNSRecord(CloudflareName(r.name, domain), r.type,
              IF r.type = "CNAME" /\ ~EndsWithDot(r.content) THEN Append(r.content, "") ELSE r.content,
              r.ttl, NoLine, r.comment, r.id)

\* dnspod.py:35-45
DNSPodRecord(r) ==
    DNSRecord(r.name, r.type, r.content, r.ttl,
              IF r.line = DefaultLine THEN NoLine ELSE r.line, r.comment, r.id)

\* get_records of either backend before its assert_valid loop:
\* cloudflare.py:31-53, dnspod.py:29-45
get_records(backend, domain, prefix, listed) ==
    LET Owned(r) == HasPrefix(prefix, r.comment)
        owned == SelectSeq(listed, Owned)
    IN  [k \in 1..Len(owned) |->
            IF backend = "cloudflare" THEN CloudflareRecord(domain, owned[k])
            ELSE DNSPodRecord(owned[k])]

\* one provider call of update_records
Op(kind, api, recs) == [kind |-> kind, api |-> api, recs |-> recs]

OpsOf(kind, api, records) == [k \in 1..Len(records) |-> Op(kind, api, <<records[k]>>)]

\* CloudflareClient.update_records with the creates issued first (mutation)
CloudflareCreatesFirst(adding, updating, deleting) ==
    OpsOf("create", "dns.records.create", adding)
    \o OpsOf("update", "dns.records.update", updating)
    \o OpsOf("delete", "dns.records.delete", deleting)

\* CloudflareClient.update_records, cloudflare.py:63-95: the calls in program order
CloudflareUpdateRecords(adding, updating, deleting) ==
    OpsOf("update", "dns.records.update", updating)
    \o OpsOf("delete", "dns.records.delete", deleting)
    \o OpsOf("create", "dns.records.create", adding)

\* DNSPodClient.update_records, dnspod.py:55-89: one DeleteRecordBatch for all deletes
DNSPodUpdateRecords(adding, updating, deleting) ==
    OpsOf("update", "ModifyRecord", updating)
    \o (IF Len(deleting) > 0 THEN <<Op("delete", "DeleteRecordBatch", deleting)>> ELSE <<>>)
    \o OpsOf("create", "CreateRecord", adding)

\* cloudflare.py:67,85: assert record.line is None, before the update / create call
CloudflareAssertFails(backend, op) ==
    /\ backend = "cloudflare"
    /\ op.kind \in {"update", "create"}
    /\ op.recs[1].line # NoLine

\* The provider's side of a successful call
ProviderApply(backend, domain, listed, op, id) ==
    CASE op.kind = "update" ->
            [k \in 1..Len(listed) |->
                IF listed[k].id = op.recs[1].id
                THEN ToNative(backend, domain, op.recs[1], listed[k].id)
                ELSE listed[k]]
      [] op.kind = "delete" -> ApplyDeletes(listed, op.recs)
      [] op.kind = "create" -> Append(listed, ToNative(backend, domain, op.recs[1], id))

(***************************************************************************)
(* main, Tetra.__init__ and Tetra.run: tetra.py:101-117, 327-358, 361-380  *)
(***************************************************************************)
D1 == "d1.example"
D2 == "d2.example"
Domains == { D1, D2 }
Backends == { "cloudflare", "dnspod" }

\* tetra.py:103-105
Prefix(cfg) == IF cfg.layer = "bottom" THEN COMMENT_PREFIX_BOTTOM ELSE COMMENT_PREFIX_TOP
RunComment(cfg) == Comment(Prefix(cfg), "t1")

\* what input() may return at the prompt
Answers == { "y", "Y", "n", "" }

\* str.lower
Lower(answer) ==
    CASE answer = "Y" -> "y"
      [] answer = "N" -> "n"
      [] OTHER -> answer

\* the test of tetra.py:356 turned into `!= "n"` (mutation)
ConfirmedUnlessNo(answer) == Lower(answer) # "n"

\* tetra.py:356: update_records is reached unless input().lower() != "y"
Confirmed(answer) == Lower(answer) = "y"

\* tetra.py:349 with one `not` lost (mutation)
NoChangesButDeleting(adding, updating, deleting) ==
    Len(adding) = 0 /\ Len(updating) = 0 /\ Len(deleting) # 0

\* tetra.py:349: not adding and not updating and not deleting
NoChanges(adding, updating, deleting) ==
    Len(adding) = 0 /\ Len(updating) = 0 /\ Len(deleting) = 0

\* a failed call is swallowed and the same statement runs again (mutation)
AfterFailedCallRetry(at) == at

\* An exception raised by a provider call is caught nowhere (update_records,
\* Tetra.run, main: tetra.py:375-380): the process ends
AfterFailedCall(at) == "aborted"

\* ---- bounded configurations ----
\* candidate records of the first domain, before the validation of tetra.py:243-250
RunCandidates(cfg) ==
    { DNSRecord(<<"a">>, "A", IP1, TTL_EXT, NoLine, RunComment(cfg), NoId),
      DNSRecord(<<"a">>, "A", IP2, TTL_EXT, NoLine, RunComment(cfg), NoId),
      DNSRecord(<<"c">>, "CNAME", <<"a", D1>>, TTL_NET, NoLine, RunComment(cfg), NoId),
      DNSRecord(<<"@">>, "CNAME", <<"a", D1, "">>, TTL_NET, NoLine, RunComment(cfg), NoId) }

\* records the provider may hold for the first domain: two owned by this
\* layer, one entered by hand
RunSeeds(cfg) ==
    { DNSRecord(<<"a">>, "A", IP1, TTL_EXT, NoLine, Comment(Prefix(cfg), "t0"), NoId),
      DNSRecord(<<"b">>, "A", IP1, TTL_EXT, NoLine, Comment(Prefix(cfg), "t0"), NoId),
      DNSRecord(<<"a">>, "A", IP2, TTL_EXT, NoLine, <<"manual">>, NoId) }

FirstConfigs ==
    { [backend |-> b, layer |-> "bottom", expands |-> e, ans |-> a, seeds |-> sd] :
        b \in Backends, e \in BOOLEAN,
        a \in SeqsUpTo(RunCandidates([layer |-> "bottom"]), RunMaxPending),
        sd \in SeqsUpTo(RunSeeds([layer |-> "bottom"]), RunMaxLive) }

\* the second domain: a top-layer domain with one owned record on the provider,
\* whose configuration yields no record or a malformed name
SecondSeed == DNSRecord(<<"www">>, "A", IP1, TTL_TOP, NoLine, Comment(COMMENT_PREFIX_TOP, "t0"), NoId)

SecondConfigs ==
    { [backend |-> b, layer |-> "top", expands |-> TRUE, ans |-> a, seeds |-> <<SecondSeed>>] :
        b \in Backends,
        a \in { <<>>, <<[SecondSeed EXCEPT !.name = <<"www", "">>]>> } }

\* the provider's records of a domain before the run
InitialProvider(domain, cfg, base) ==
    [k \in 1..Len(cfg.seeds) |-> ToNative(cfg.backend, domain, cfg.seeds[k], base + k)]

\* the provider's records of each configured domain before the run
Provider0(cfgs, d) ==
    IF d = D1 THEN InitialProvider(D1, cfgs[D1], 0)
    ELSE InitialProvider(D2, cfgs[D2], RunMaxLive + 1)

CCIdle ==
    /\ cc_phase = "idle" /\ cc_old = <<>> /\ cc_pending = <<>> /\ cc_force = FALSE
    /\ cc_result = EmptyResult /\ cc_old2 = <<>> /\ cc_result2 = EmptyResult

NoChangeset == [computed |-> FALSE, adding |-> <<>>, updating |-> <<>>, deleting |-> <<>>]

Init ==
    /\ CCIdle
    /\ ExIdle
    /\ pc = "construct"
    /\ todo = <<D1, D2>>
    /\ cur = 1
    /\ args \in [force : BOOLEAN, dry_run : BOOLEAN]
    /\ \E c1 \in FirstConfigs, c2 \in SecondConfigs :
          /\ (~c1.expands => c1.ans = <<>>)
          /\ config = [d \in Domains |-> IF d = D1 THEN c1 ELSE c2]
          /\ provider = [d \in Domains |->
                Provider0([e \in Domains |-> IF e = D1 THEN c1 ELSE c2], d)]
    /\ nextId = 2 * RunMaxLive + 3
    /\ pending = <<>>
    /\ plan = <<>>
    /\ step = 0
    /\ calls = <<>>
    /\ prompted = [d \in Domains |-> "unasked"]
    /\ changeset = [d \in Domains |-> NoChangeset]
    /\ fetched = [d \in Domains |-> <<>>]
    /\ failure = "none"

Call(domain, kind, api, recs, ok) ==
    [domain |-> domain, kind |-> kind, api |-> api, recs |-> recs, ok |-> ok]

\* the process ends with an error
Abort(reason) ==
    /\ pc' = "aborted"
    /\ failure' = reason

\* Tetra.run returns to the loop of main, tetra.py:375-380
Return ==
    /\ IF cur < Len(todo)
       THEN pc' = "construct" /\ cur' = cur + 1
       ELSE pc' = "done" /\ cur' = cur
    /\ pending' = <<>>
    /\ plan' = <<>>
    /\ step' = 0
    /\ failure' = failure

\* a provider call that raised
FailedCall(call) ==
    /\ calls' = Append(calls, call)
    /\ pc' = AfterFailedCall(pc)
    /\ failure' = IF pc' = "aborted" THEN "provider" ELSE failure

\* Tetra.__init__, tetra.py:102-117: the Cloudflare client looks the zone up
\* (cloudflare.py:17-26), the DNSPod client issues no call (dnspod.py:17-25)
Construct ==
    /\ pc = "construct"
    /\ LET d == todo[cur] IN
       IF config[d].backend = "cloudflare"
       THEN \E ok \in BOOLEAN :
               IF ok
               THEN /\ calls' = Append(calls, Call(d, "lookup", "zones.list", <<>>, TRUE))
                    /\ pc' = "parse"
                    /\ failure' = failure
               ELSE FailedCall(Call(d, "lookup", "zones.list", <<>>, FALSE))
       ELSE /\ pc' = "parse"
            /\ UNCHANGED <<calls, failure>>
    /\ UNCHANGED <<todo, cur, args, config, provider, nextId, pending, plan, step,
                   prompted, changeset, fetched>>
    /\ UNCHANGED ccVars
    /\ UNCHANGED exVars

\* Tetra.run, tetra.py:328-332: expansion, trailing dots, validation
Parse ==
    /\ pc = "parse"
    /\ LET cfg == config[todo[cur]]
           ans == AppendCnameDots(cfg.ans)
       IN  IF ~cfg.expands
           THEN Abort("config") /\ pending' = pending
           ELSE IF Validates(ans)
                THEN pc' = "get" /\ pending' = ans /\ failure' = failure
                ELSE Abort("validation") /\ pending' = pending
    /\ UNCHANGED <<todo, cur, args, config, provider, nextId, plan, step, calls,
                   prompted, changeset, fetched>>
    /\ UNCHANGED ccVars
    /\ UNCHANGED exVars

\* Tetra.run, tetra.py:333-354: get_records, cross_compare, the previews and
\* the two returns before the prompt
GetRecords ==
    /\ pc = "get"
    /\ LET d == todo[cur]
           cfg == config[d]
           api == IF cfg.backend = "cloudflare" THEN "dns.records.list" ELSE "DescribeRecordList"
           old == get_records(cfg.backend, d, Prefix(cfg), provider[d])
           res == cross_compare(old, pending, args.force)
       IN  \E ok \in BOOLEAN :
             IF ~ok
             THEN /\ FailedCall(Call(d, "read", api, <<>>, FALSE))
                  /\ UNCHANGED <<cur, pending, plan, step, changeset, fetched>>
             ELSE /\ calls' = Append(calls, Call(d, "read", api, <<>>, TRUE))
                  /\ IF \E k \in 1..Len(old) : ~assert_valid(old[k])
                     THEN /\ Abort("live_invalid")
                          /\ UNCHANGED <<cur, pending, plan, step, changeset, fetched>>
                     ELSE /\ fetched' = [fetched EXCEPT ![d] = old]
                          /\ changeset' = [changeset EXCEPT ![d] =
                                [computed |-> TRUE, adding |-> res.adding,
                                 updating |-> res.updating, deleting |-> res.deleting]]
                          /\ IF NoChanges(res.adding, res.updating, res.deleting)
                             THEN Return
                             ELSE IF args.dry_run
                                  THEN Return
                                  ELSE /\ pc' = "prompt"
                                       /\ UNCHANGED <<cur, pending, plan, step, failure>>
    /\ UNCHANGED <<todo, args, config, provider, nextId, prompted>>
    /\ UNCHANGED ccVars
    /\ UNCHANGED exVars

\* Tetra.run, tetra.py:355-358: the prompt, and the entry into update_records
Prompt ==
    /\ pc = "prompt"
    /\ LET d == todo[cur]
           cs == changeset[d]
       IN  \E answer \in Answers :
             /\ prompted' = [prompted EXCEPT ![d] = answer]
             /\ IF Confirmed(answer)
                THEN /\ plan' = IF config[d].backend = "cloudflare"
                                THEN CloudflareUpdateRecords(cs.adding, cs.updating, cs.deleting)
                                ELSE DNSPodUpdateRecords(cs.adding, cs.updating, cs.deleting)
                     /\ step' = 1
                     /\ pc' = "update"
                     /\ UNCHANGED <<cur, pending, failure>>
                ELSE Return
    /\ UNCHANGED <<todo, args, config, provider, nextId, calls, changeset, fetched>>
    /\ UNCHANGED ccVars
    /\ UNCHANGED exVars

\* update_records: the next provider call of cloudflare.py:63-95 / dnspod.py:55-89
UpdateStep ==
    /\ pc = "update"
    /\ step <= Len(plan)
    /\ LET d == todo[cur]
           backend == config[d].backend
           op == plan[step]
       IN  IF CloudflareAssertFails(backend, op)
           THEN /\ Abort("assert")
                /\ UNCHANGED <<cur, pending, plan, step, calls, provider, nextId>>
           ELSE \E ok \in BOOLEAN :
                  IF ~ok
                  THEN /\ FailedCall(Call(d, op.kind, op.api, op.recs, FALSE))
                       /\ UNCHANGED <<cur, pending, plan, step, provider, nextId>>
                  ELSE /\ calls' = Append(calls, Call(d, op.kind, op.api, op.recs, TRUE))
                       /\ provider' = [provider EXCEPT ![d] =
                                          ProviderApply(backend, d, provider[d], op, nextId)]
                       /\ nextId' = IF op.kind = "create" THEN nextId + 1 ELSE nextId
                       /\ IF step = Len(plan)
                          THEN Return
                          ELSE /\ step' = step + 1
                               /\ UNCHANGED <<pc, cur, pending, plan, failure>>
    /\ UNCHANGED <<todo, args, config, prompted, changeset, fetched>>
    /\ UNCHANGED ccVars
    /\ UNCHANGED exVars

Next == Construct \/ Parse \/ GetRecords \/ Prompt \/ UpdateStep

Spec == Init /\ [][Next]_vars

(***************************************************************************)
(* Multisets of field tuples                                               *)
(***************************************************************************)
Count(lst, f) == Cardinality({ k \in 1..Len(lst) : Fields(lst[k]) = f })

FieldsIn(lst) == { Fields(lst[k]) : k \in 1..Len(lst) }

SameMultiset(s, t) ==
    \A f \in FieldsIn(s) \cup FieldsIn(t) : Count(s, f) = Count(t, f)

SubMultiset(s, t) == \A f \in FieldsIn(s) : Count(s, f) <= Count(t, f)

DistinctIds(lst) == \A i, j \in 1..Len(lst) : i # j => lst[i].id # lst[j].id

\* C1: for every live list with distinct ids, every id-less pending list and
\* either force, the changeset of cross_compare applied to live gives the
\* multiset of (name, type, content, ttl, line) of pending.
C1_ApplyReconstructsPending ==
    cc_phase \in {"applied", "recompared"} => SameMultiset(cc_old2, cc_pending)

\* C2: the three lists returned by cross_compare are pairwise disjoint: the
\* records of adding and updating together are a sub-multiset of pending (no
\* pending record is in both), adding is id-less, every record of deleting is
\* a live record, no two records of updating carry the same id, and no id of
\* updating is the id of a record of deleting.
C2_ResultDisjoint ==
    cc_phase # "input" =>
        /\ SubMultiset(cc_result.adding \o cc_result.updating, cc_pending)
        /\ \A k \in 1..Len(cc_result.adding) : cc_result.adding[k].id = NoId
        /\ \A k \in 1..Len(cc_result.updating) : cc_result.updating[k].id # NoId
        /\ \A k \in 1..Len(cc_result.deleting) :
              \E j \in 1..Len(cc_old) : cc_old[j] = cc_result.deleting[k]
        /\ DistinctIds(cc_result.updating)
        /\ IdsOf(cc_result.updating) \cap IdsOf(cc_result.deleting) = {}

C2_Witness ==
    /\ cc_phase = "compared"
    /\ cc_force
    /\ Len(cc_result.adding) > 0
    /\ Len(cc_result.updating) > 0
    /\ Len(cc_result.deleting) > 0

\* C3: with force = false, after the changeset of the first call was applied,
\* a second call with the same configuration (records regenerated with a new
\* comment timestamp, live records under their provider ids) returns empty
\* adding, updating and deleting.
C3_Idempotent ==
    (cc_phase = "recompared" /\ ~cc_force) => cc_result2 = EmptyResult

C3_Witness ==
    /\ cc_phase = "recompared"
    /\ ~cc_force
    /\ Len(cc_result.updating) > 0
    /\ Len(cc_result.deleting) > 0
    /\ \E k \in 1..Len(cc_old2) : cc_old2[k].comment = Comment(COMMENT_PREFIX_BOTTOM, "t0")
    /\ cc_result2 = EmptyResult

\* C4: when pending and live are equal as multisets of (name, type, content,
\* ttl, line) and force = true, adding and deleting are empty and updating
\* holds every pending record, each with the id of a distinct live record
\* that is fully equal to it.
C4_ForceUnchanged ==
    (cc_phase = "compared" /\ cc_force /\ SameMultiset(cc_old, cc_pending)) =>
        /\ cc_result.adding = <<>>
        /\ cc_result.deleting = <<>>
        /\ Len(cc_result.updating) = Len(cc_pending)
        /\ \A k \in 1..Len(cc_pending) :
              /\ Fields(cc_result.updating[k]) = Fields(cc_pending[k])
              /\ \E j \in 1..Len(cc_old) :
                    /\ cc_old[j].id = cc_result.updating[k].id
                    /\ Eq(cc_old[j], cc_result.updating[k])
        /\ DistinctIds(cc_result.updating)

C4_Witness ==
    /\ cc_phase = "compared"
    /\ cc_force
    /\ SameMultiset(cc_old, cc_pending)
    /\ Len(cc_pending) = 2
    /\ Sims(cc_pending[1], cc_pending[2])
    /\ ~Eq(cc_pending[1], cc_pending[2])
    /\ Eq(cc_pending[1], cc_old[2])
    /\ Len(cc_result.updating) = 2

(***************************************************************************)
(* Properties of a run                                                     *)
(***************************************************************************)
Mutating(call) == call.kind \in {"update", "delete", "create"}

ChangesetEmpty(d) ==
    /\ changeset[d].computed
    /\ Len(changeset[d].adding) = 0
    /\ Len(changeset[d].updating) = 0
    /\ Len(changeset[d].deleting) = 0

ChangesetNonEmpty(d) == changeset[d].computed /\ ~ChangesetEmpty(d)

\* C5 as stated: a mutating provider call is made for a domain only if dry-run
\* is off, the changeset is non-empty and the answer read at the prompt is `y`.
C5_UpdateOnlyAfterLowercaseY ==
    \A k \in 1..Len(calls) :
        Mutating(calls[k]) =>
            /\ ~args.dry_run
            /\ ChangesetNonEmpty(calls[k].domain)
            /\ prompted[calls[k].domain] = "y"

\* C5 amended: a mutating provider call is made for a domain only if dry-run
\* is off, the changeset is non-empty and the answer read at the prompt is `y`
\* in either case (`y` or `Y`); in dry-run, or on any other answer, none is made.
C5_UpdateOnlyAfterYes ==
    \A k \in 1..Len(calls) :
        Mutating(calls[k]) =>
            /\ ~args.dry_run
            /\ ChangesetNonEmpty(calls[k].domain)
            /\ prompted[calls[k].domain] \in {"y", "Y"}

C5_Witness ==
    /\ \E k \in 1..Len(calls) : Mutating(calls[k]) /\ calls[k].domain = D1
    /\ prompted[D1] = "Y"
    /\ prompted[D2] = "n"
    /\ ChangesetNonEmpty(D2)
    /\ pc = "done"

\* C6: when adding, updating and deleting are all empty, Tetra.run returns
\* without a prompt and without a mutating provider call, with or without
\* dry-run.
C6_EmptyChangesetShortCircuits ==
    \A d \in Domains :
        ChangesetEmpty(d) =>
            /\ prompted[d] = "unasked"
            /\ \A k \in 1..Len(calls) : calls[k].domain = d => ~Mutating(calls[k])
            /\ ~(pc \in {"prompt", "update"} /\ todo[cur] = d)

C6_Witness ==
    /\ ChangesetEmpty(D1)
    /\ Len(fetched[D1]) > 0
    /\ ~args.dry_run
    /\ cur = 2

\* the comment of a provider record contains the ownership prefix of the
\* layer configured for the domain
OwnedBy(d, r) ==
    LET prefix == IF config[d].layer = "bottom" THEN "TETRAB" ELSE "TETRAT"
    IN  \E k \in 1..Len(r.comment) : r.comment[k] = prefix

\* C7: every id that update_records is asked to update or delete is the id of
\* a record returned by get_records in this run, which is a provider record
\* whose comment contains the layer's prefix; a provider record whose comment
\* lacks the prefix stays with the provider as it was.
C7_OnlyOwnedRecordsTouched ==
    /\ \A k \in 1..Len(calls) :
          calls[k].kind \in {"update", "delete"} =>
             LET d == calls[k].domain
                 before == Provider0(config, d)
             IN  \A r \in 1..Len(calls[k].recs) :
                    /\ calls[k].recs[r].id \in IdsOf(fetched[d])
                    /\ \E j \in 1..Len(before) :
                          /\ before[j].id = calls[k].recs[r].id
                          /\ OwnedBy(d, before[j])
    /\ \A d \in Domains :
          LET before == Provider0(config, d) IN
          \A j \in 1..Len(before) :
             ~OwnedBy(d, before[j]) =>
                 \E m \in 1..Len(provider[d]) : provider[d][m] = before[j]

C7_Witness ==
    /\ args.force
    /\ \E k \in 1..Len(calls) :
          /\ calls[k].domain = D1 /\ calls[k].kind = "update" /\ calls[k].ok
          /\ \E j \in 1..Len(provider[D1]) :
                /\ ~OwnedBy(D1, provider[D1][j])
                /\ provider[D1][j].type = calls[k].recs[1].type
                /\ provider[D1][j].content = calls[k].recs[1].content
    /\ \E k \in 1..Len(calls) :
          calls[k].domain = D2 /\ calls[k].kind = "delete" /\ calls[k].ok

\* C8 as stated: when expansion or validation of a domain's configuration
\* fails, no provider call of any kind has been issued during the run.
C8_NoCallBeforeValidationFailure ==
    (pc = "aborted" /\ failure \in {"config", "validation"}) => calls = <<>>

\* a changeset call that succeeded is in place at the provider
InPlace(call) ==
    LET listed == provider[call.domain]
        backend == config[call.domain].backend
    IN  CASE call.kind = "update" ->
                \E m \in 1..Len(listed) :
                    listed[m] = ToNative(backend, call.domain, call.recs[1], call.recs[1].id)
          [] call.kind = "delete" ->
                \A r \in 1..Len(call.recs) : call.recs[r].id \notin IdsOf(listed)
          [] call.kind = "create" ->
                \E m \in 1..Len(listed) :
                    /\ listed[m] = ToNative(backend, call.domain, call.recs[1], listed[m].id)
                    /\ listed[m].id \notin IdsOf(Provider0(config, call.domain))
          [] OTHER -> TRUE

AfterFailure ==
    (\E k \in 1..Len(calls) : ~calls[k].ok) =>
        /\ pc = "aborted"
        /\ failure = "provider"
        /\ \A k \in 1..Len(calls) : ~calls[k].ok => k = Len(calls)
        /\ \A k \in 1..Len(calls) : calls[k].domain \in { todo[j] : j \in 1..cur }
        /\ \A j \in (cur + 1)..Len(todo) :
              provider[todo[j]] = Provider0(config, todo[j])
        /\ \A k \in 1..Len(calls) : calls[k].ok => InPlace(calls[k])

\* C9: a provider call that fails ends the run at once: the failed call is the
\* last call of the run (no retry, no later operation, no later domain), no
\* step follows the abort, and every call that succeeded before it, in this
\* changeset or in an earlier domain, is still in place at the provider.
C9_FailureAbortsWithoutRollback ==
    [][pc # "aborted" /\ AfterFailure']_vars

C9_Witness ==
    /\ pc = "aborted"
    /\ cur = 1
    /\ Len(calls) > 0
    /\ Mutating(calls[Len(calls)])
    /\ ~calls[Len(calls)].ok
    /\ step = 2
    /\ step < Len(plan)

Rank(kind) ==
    CASE kind = "update" -> 1
      [] kind = "delete" -> 2
      [] kind = "create" -> 3

IssuedIds(d, kind, upto) ==
    UNION { IdsOf(calls[k].recs) :
              k \in { i \in 1..upto : calls[i].domain = d /\ calls[i].kind = kind } }

\* C10: within one changeset the calls go updates, then deletes, then creates;
\* DNSPod issues a single delete call carrying every record of deleting; and
\* when a create is issued every update and every delete of the changeset has
\* been issued.
C10_UpdateDeleteCreateOrder ==
    /\ \A i, j \in 1..Len(calls) :
          (i < j /\ calls[i].domain = calls[j].domain
                 /\ Mutating(calls[i]) /\ Mutating(calls[j])) =>
             /\ Rank(calls[i].kind) <= Rank(calls[j].kind)
             /\ (config[calls[i].domain].backend = "dnspod" =>
                    ~(calls[i].kind = "delete" /\ calls[j].kind = "delete"))
    /\ \A j \in 1..Len(calls) :
          calls[j].kind = "create" =>
             /\ IssuedIds(calls[j].domain, "update", j) = IdsOf(changeset[calls[j].domain].updating)
             /\ IssuedIds(calls[j].domain, "delete", j) = IdsOf(changeset[calls[j].domain].deleting)

C10_Witness ==
    /\ config[D1].backend = "cloudflare"
    /\ \E i, j, k \in 1..Len(calls) :
          /\ i < j /\ j < k
          /\ calls[i].domain = D1 /\ calls[j].domain = D1 /\ calls[k].domain = D1
          /\ calls[i].kind = "update" /\ calls[j].kind = "delete" /\ calls[k].kind = "create"
          /\ calls[k].ok

\* C20: with force = true, a pending record that the exact-match pass pairs
\* with a fully-equal live record L is returned in updating carrying the id of
\* L, whatever other live records of the same (name, type) are in the pool, so
\* L is not left outside both updating and deleting.
C20_ForcedMatchKeepsId ==
    (cc_phase = "compared" /\ cc_force) =>
        LET e == ExactPass(cc_old, cc_pending, <<>>, 1, TRUE) IN
        \A k \in 1..Len(e.pending) :
            e.pending[k].id # NoId =>
                /\ \E u \in 1..Len(cc_result.updating) :
                      /\ cc_result.updating[u].id = e.pending[k].id
                      /\ Fields(cc_result.updating[u]) = Fields(cc_pending[k])
                /\ e.pending[k].id \in IdsOf(cc_result.updating) \cup IdsOf(cc_result.deleting)

(***************************************************************************)
(* Part 3: record expansion, src/tetra/tetra.py:76-81 and 119-325          *)
(***************************************************************************)
\* ---- string primitives the expanders use ----
\* '"-v" in basename'
HasVersionMarker(basename) ==
    \E i \in 1..(Len(basename) - 1) : SubSeq(basename, i, i + 1) = "-v"

\* the whole basename, nothing is split off
NetworkNameWhole(basename) == basename

\* basename.split("-v")[0]: the text before the first "-v"
NetworkName(basename) ==
    LET first == CHOOSE i \in 1..(Len(basename) - 1) :
                     /\ SubSeq(basename, i, i + 1) = "-v"
                     /\ \A j \in 1..(i - 1) : SubSeq(basename, j, j + 1) # "-v"
    IN  IF first = 1 THEN "" ELSE SubSeq(basename, 1, first - 1)

\* str(ipaddress.ip_address(content)): the canonical text of an IPv6 literal
CanonicalIPv6(content) == IF content = <<"FD00::1">> THEN <<"fd00::1">> ELSE content

\* DNSRecord.__init__: AAAA content is stored in canonical form
NewRecord(name, type, content, ttl, line, comment) ==
    DNSRecord(name, type, IF type = "AAAA" THEN CanonicalIPv6(content) ELSE content,
              ttl, line, comment, NoId)

\* ---- get_zone_suffix ----
ZONE_SUFFIX == (0 :> "-phy") @@ (1 :> "-ext") @@ (4 :> "-ip4") @@ (6 :> "-ip6")

\* TRUE when get_zone_suffix(zone) returns, FALSE when it raises ValueError
ZoneSuffixDefined(zone) == zone \in DOMAIN ZONE_SUFFIX \/ zone >= 10

get_zone_suffix(zone) ==
    IF zone \in DOMAIN ZONE_SUFFIX THEN ZONE_SUFFIX[zone] ELSE "-z" \o ToString(zone)

\* ---- the per-host dict 'records': zone -> list, in insertion order ----
DictHas(records, zone) == \E k \in 1..Len(records) : records[k].zone = zone

DictGet(records, zone) ==
    records[CHOOSE k \in 1..Len(records) : records[k].zone = zone].recs

\* records[zone] = recs: an existing key keeps its position, a new one goes last
DictSet(records, zone, recs) ==
    IF DictHas(records, zone)
    THEN [k \in 1..Len(records) |->
             IF records[k].zone = zone THEN [zone |-> zone, recs |-> recs] ELSE records[k]]
    ELSE Append(records, [zone |-> zone, recs |-> recs])

\* del records[zone]
DictDel(records, zone) == SelectSeq(records, LAMBDA e : e.zone # zone)

\* the first key in insertion order
FirstZone(records) == records[1].zone

\* sorted(records)[0]
LowestZone(records) ==
    CHOOSE z \in { records[k].zone : k \in 1..Len(records) } :
        \A k \in 1..Len(records) : z <= records[k].zone

\* ---- _parse_bottom_records, one host ----
\* tetra.py:126-130: a string is one address, a list is the addresses of zone 0
NormaliseAddresses(addresses) ==
    CASE addresses.form = "absent" -> <<>>
      [] addresses.form = "str"    -> << [zone |-> 0, addrs |-> <<addresses.value>>] >>
      [] addresses.form = "list"   -> << [zone |-> 0, addrs |-> addresses.list] >>
      [] addresses.form = "map"    -> addresses.items

\* tetra.py:152-157 / 171-174: the zones one address lands in
ZonesOf(zone, version) ==
    IF zone = 0 THEN <<0, 1, version>>
    ELSE IF zone = 1 THEN <<1, version>>
    ELSE <<zone>>

\* tetra.py:158-169 / 175-186: append one record per zone of 'zones'
RECURSIVE AppendToZones(_, _, _, _, _, _, _)
AppendToZones(records, zones, k, name, address, ttl, comment) ==
    IF k > Len(zones) THEN records
    ELSE LET z    == zones[k]
             held == IF DictHas(records, z) THEN DictGet(records, z) ELSE <<>>
             rec  == NewRecord(<<name, ToString(z)>>,
                               IF IsIPv4(<<address>>) THEN "A" ELSE "AAAA",
                               <<address>>, ttl, NoLine, comment)
         IN  AppendToZones(DictSet(records, z, Append(held, rec)),
                           zones, k + 1, name, address, ttl, comment)

\* tetra.py:146-186: the addresses of one zone; 'exit' on an unparsable address
RECURSIVE AddAddresses(_, _, _, _, _, _, _)
AddAddresses(records, addrs, k, name, zone, ttl, comment) ==
    IF k > Len(addrs) THEN [status |-> "ok", records |-> records]
    ELSE IF ~IsIPv4(<<addrs[k]>>) /\ ~IsIPv6(<<addrs[k]>>)
         THEN [status |-> "exit", records |-> <<>>]
         ELSE AddAddresses(
                  AppendToZones(records,
                                ZonesOf(zone, IF IsIPv4(<<addrs[k]>>) THEN 4 ELSE 6),
                                1, name, addrs[k], ttl, comment),
                  addrs, k + 1, name, zone, ttl, comment)

\* tetra.py:131-186: the items of host["addresses"], in order
RECURSIVE AddZones(_, _, _, _, _)
AddZones(records, items, k, name, comment) ==
    IF k > Len(items) THEN [status |-> "ok", records |-> records]
    ELSE LET zone == items[k].zone
             addrs == items[k].addrs
         IN  IF Len(addrs) = 0
             THEN AddZones(DictSet(records, zone, <<>>), items, k + 1, name, comment)
             ELSE IF zone < 10 /\ zone \notin {0, 1}
                  THEN [status |-> "exit", records |-> <<>>]
                  ELSE LET ttl  == IF zone = 0 THEN TTL_HOST ELSE TTL_EXT
                           done == AddAddresses(records, addrs, 1, name, zone, ttl, comment)
                       IN  IF done.status # "ok" THEN done
                           ELSE AddZones(done.records, items, k + 1, name, comment)

\* nothing is dropped
SuppressNothing(records) == records

\* tetra.py:187-192: zone 1 is dropped when it is as long as zone 0
SuppressZone1(records) ==
    IF /\ DictHas(records, 0)
       /\ DictHas(records, 1)
       /\ Len(DictGet(records, 0)) = Len(DictGet(records, 1))
       /\ Len(DictGet(records, 1)) # 0
    THEN DictDel(records, 1)
    ELSE records

\* tetra.py:193-194
RECURSIVE DictValues(_, _)
DictValues(records, k) ==
    IF k > Len(records) THEN <<>> ELSE records[k].recs \o DictValues(records, k + 1)

\* tetra.py:212-221: the per-zone aliases of a mid-name
ZoneAliases(records, basename, name, domain, comment) ==
    [k \in 1..Len(records) |->
        NewRecord(<<basename \o get_zone_suffix(records[k].zone)>>, "CNAME",
                  <<name, ToString(records[k].zone), domain, "">>,
                  IF HasVersionMarker(basename) THEN TTL_PERMA ELSE TTL_NET,
                  NoLine, comment)]

\* tetra.py:233-242: the per-zone aliases of the network of a current version
NetworkAliases(records, basename, domain, comment) ==
    [k \in 1..Len(records) |->
        NewRecord(<<NetworkName(basename) \o get_zone_suffix(records[k].zone)>>, "CNAME",
                  <<basename \o get_zone_suffix(records[k].zone), domain, "">>,
                  TTL_NET, NoLine, comment)]

\* tetra.py:199-242: one mid-name.  sorted(records)[0] is evaluated whether or
\* not current_zone is given, and raises IndexError on a host with no zone.
MidName(records, mid_name, name, domain, comment) ==
    IF Len(records) = 0 THEN [status |-> "IndexError", records |-> <<>>]
    ELSE IF \E k \in 1..Len(records) : ~ZoneSuffixDefined(records[k].zone)
    THEN [status |-> "ValueError", records |-> <<>>]
    ELSE
    LET current_zone == IF mid_name.has_zone THEN mid_name.current_zone
                        ELSE LowestZone(records)
        basename == mid_name.name
        head == << NewRecord(<<basename>>, "CNAME",
                             <<name, ToString(current_zone), domain, "">>,
                             TTL_NET, NoLine, comment) >>
        net  == IF HasVersionMarker(basename) /\ mid_name.current
                THEN << NewRecord(<<NetworkName(basename)>>, "CNAME",
                                  <<basename, domain, "">>, TTL_NET, NoLine, comment) >>
                     \o NetworkAliases(records, basename, domain, comment)
                ELSE <<>>
    IN  [status |-> "ok",
         records |-> head \o ZoneAliases(records, basename, name, domain, comment) \o net]

\* tetra.py:195-242
RECURSIVE MidNames(_, _, _, _, _, _)
MidNames(records, mid_names, k, name, domain, comment) ==
    IF k > Len(mid_names) THEN [status |-> "ok", records |-> <<>>]
    ELSE LET one == MidName(records, mid_names[k], name, domain, comment)
         IN  IF one.status # "ok" THEN one
             ELSE LET rest == MidNames(records, mid_names, k + 1, name, domain, comment)
                  IN  IF rest.status # "ok" THEN rest
                      ELSE [status |-> "ok", records |-> one.records \o rest.records]

\* tetra.py:124-242: the candidate records of one host
ExpandHost(host, domain, comment) ==
    LET zoned == AddZones(<<>>, NormaliseAddresses(host.addresses), 1, host.name, comment)
    IN  IF zoned.status # "ok" THEN zoned
        ELSE LET records == SuppressZone1(zoned.records)
                 mids    == MidNames(records, host.mid_names, 1, host.name, domain, comment)
             IN  IF mids.status # "ok" THEN mids
                 ELSE [status |-> "ok", records |-> DictValues(records, 1) \o mids.records]

\* tetra.py:123: for host in self.config["hosts"]
RECURSIVE ExpandHosts(_, _, _, _)
ExpandHosts(hosts, k, domain, comment) ==
    IF k > Len(hosts) THEN [status |-> "ok", records |-> <<>>]
    ELSE LET one == ExpandHost(hosts[k], domain, comment)
         IN  IF one.status # "ok" THEN one
             ELSE LET rest == ExpandHosts(hosts, k + 1, domain, comment)
                  IN  IF rest.status # "ok" THEN rest
                      ELSE [status |-> "ok", records |-> one.records \o rest.records]

\* tetra.py:243-251 / 317-325: dot the CNAME contents, validate, return
Finish(ans) ==
    LET dotted == AppendCnameDots(ans)
    IN  IF Validates(dotted) THEN [status |-> "ok", records |-> dotted]
        ELSE [status |-> "ValueError", records |-> <<>>]

_parse_bottom_records(cfg, comment) ==
    LET ans == ExpandHosts(cfg.hosts, 1, cfg.domain, comment)
    IN  IF ans.status # "ok" THEN ans ELSE Finish(ans.records)


\* ---- _parse_top_records ----
\* the text of a dotted name: its labels joined by "."
RECURSIVE JoinLabels(_)
JoinLabels(labels) ==
    IF Len(labels) = 0 THEN ""
    ELSE IF Len(labels) = 1 THEN labels[1]
    ELSE labels[1] \o "." \o JoinLabels(Tail(labels))

\* str.endswith(suffix) on texts
TextEndsWith(text, suffix) ==
    /\ Len(suffix) <= Len(text)
    /\ \/ Len(suffix) = 0
       \/ SubSeq(text, Len(text) - Len(suffix) + 1, Len(text)) = suffix

\* tetra.py:267-279: the type and the content a record value yields.  A value
\* that is no IP literal is a CNAME target, and the bottom domain is appended
\* unless the value ends with a dot or with the text of the bottom domain.
TopType(value) ==
    IF IsIPv4(value) THEN "A" ELSE IF IsIPv6(value) THEN "AAAA" ELSE "CNAME"

TopValue(value, bottom) ==
    IF IsIPv4(value) \/ IsIPv6(value) THEN value
    ELSE IF ~EndsWithDot(value) /\ ~TextEndsWith(JoinLabels(value), JoinLabels(bottom))
         THEN value \o bottom
         ELSE value

\* tetra.py:263-290: one record per (record value, name), values outermost
GroupRecords(group, bottom, comment) ==
    LET n == Len(group.names)
    IN  [k \in 1..(Len(group.records) * n) |->
            LET record == group.records[((k - 1) \div n) + 1]
                i      == group.names[((k - 1) % n) + 1]
            IN  NewRecord(i, TopType(record.value), TopValue(record.value, bottom),
                          TTL_TOP, record.line, comment)]

\* tetra.py:291-304: every cnames entry points at the first name of the group
GroupCnames(group, domain, comment) ==
    [k \in 1..Len(group.cnames) |->
        NewRecord(group.cnames[k], "CNAME", group.names[1] \o <<domain, "">>,
                  TTL_TOP, NoLine, comment)]

\* tetra.py:258-304
RECURSIVE ExpandGroups(_, _, _, _, _)
ExpandGroups(groups, k, domain, bottom, comment) ==
    IF k > Len(groups) THEN [status |-> "ok", records |-> <<>>]
    ELSE IF Len(groups[k].cnames) > 0 /\ Len(groups[k].names) = 0
    THEN [status |-> "IndexError", records |-> <<>>]
    ELSE LET rest == ExpandGroups(groups, k + 1, domain, bottom, comment)
         IN  IF rest.status # "ok" THEN rest
             ELSE [status |-> "ok",
                   records |-> GroupRecords(groups[k], bottom, comment)
                               \o GroupCnames(groups[k], domain, comment)
                               \o rest.records]

\* resolve_name_to_template, dnsutils.py:99-113: copies of the template, one A
\* per IPv4 address of the answer, then one AAAA per IPv6 address
resolve_name_to_template(answer, template) ==
    [k \in 1..Len(answer.v4) |->
        [template EXCEPT !.type = "A", !.content = <<answer.v4[k]>>]]
    \o
    [k \in 1..Len(answer.v6) |->
        [template EXCEPT !.type = "AAAA", !.content = <<answer.v6[k]>>]]

IsRootCname(r) == r.type = "CNAME" /\ r.name = <<"@">>

RECURSIVE ResolveAll(_, _, _)
ResolveAll(root_cname, k, answer) ==
    IF k > Len(root_cname) THEN <<>>
    ELSE resolve_name_to_template(answer, root_cname[k])
         \o ResolveAll(root_cname, k + 1, answer)

\* the apex CNAMEs stay in the list: nothing is deleted before the answers
\* are appended
FlattenRootKeep(ans, answer) ==
    LET root_cname == SelectSeq(ans, IsRootCname)
    IN  IF Len(root_cname) > 0 /\ answer.status # "ok"
        THEN [status |-> "ResolveError", records |-> <<>>]
        ELSE [status |-> "ok", records |-> ans \o ResolveAll(root_cname, 1, answer)]

\* tetra.py:306-316: the apex CNAMEs are taken out of the list and the records
\* their targets resolve to are appended; a failed resolution raises
FlattenRoot(ans, answer) ==
    LET root_cname == SelectSeq(ans, IsRootCname)
    IN  IF Len(root_cname) > 0 /\ answer.status # "ok"
        THEN [status |-> "ResolveError", records |-> <<>>]
        ELSE [status |-> "ok",
              records |-> SelectSeq(ans, LAMBDA r : ~IsRootCname(r))
                          \o ResolveAll(root_cname, 1, answer)]

_parse_top_records(cfg, comment) ==
    LET ans == ExpandGroups(cfg.domains, 1, cfg.domain, cfg.bottom, comment)
    IN  IF ans.status # "ok" THEN ans
        ELSE LET flat == FlattenRoot(ans.records, cfg.answer)
             IN  IF flat.status # "ok" THEN flat ELSE Finish(flat.records)


(***************************************************************************)
(* Expansion harness: one configuration is expanded and validated          *)
(***************************************************************************)
\* host["addresses"] values: texts that parse as IPv4 and IPv6 and one that
\* does not parse
V4 == "10.0.0.1"
V6 == "FD00::1"
BadIP == "999.1.1.1"

\* the address lists a bare list and a zone of a mapping may hold
AddressLists == { <<>>, <<V4>>, <<V6>>, <<BadIP>>, <<V4, V6>> }
ZoneAddressLists == { <<>>, <<V4>>, <<V6>> }

\* zone keys: the two base zones, a derived zone, a zone below 10 with no
\* suffix, and a custom zone
ZoneKeys == { 0, 1, 4, 5, 10 }

ZoneItem(zone, addrs) == [zone |-> zone, addrs |-> addrs]

Addresses(form, value, list, items) ==
    [form |-> form, value |-> value, list |-> list, items |-> items]

\* a YAML mapping has no repeated key
ZoneMaps ==
    { m \in SeqsUpTo({ ZoneItem(z, a) : z \in ZoneKeys, a \in ZoneAddressLists }, MaxZoneItems) :
        \A i, j \in 1..Len(m) : i # j => m[i].zone # m[j].zone }

AddressForms ==
    { Addresses("absent", "", <<>>, <<>>), Addresses("str", V4, <<>>, <<>>) }
    \cup { Addresses("list", "", l, <<>>) : l \in AddressLists }
    \cup { Addresses("map", "", <<>>, m) : m \in ZoneMaps }

\* tetra.py:199-200: a mid-name given as a string is {"name": ..., "current": False}
MidNameEntry(name, current, has_zone, current_zone) ==
    [name |-> name, current |-> current, has_zone |-> has_zone, current_zone |-> current_zone]

MidNameForms ==
    { MidNameEntry(n, c, FALSE, 0) : n \in { "svc-v1", "db" }, c \in BOOLEAN }
    \cup { MidNameEntry(n, c, TRUE, 0) : n \in { "svc-v1", "db" }, c \in BOOLEAN }

BottomConfigs ==
    { [kind |-> "bottom", domain |-> D1,
       hosts |-> << [name |-> "web", addresses |-> a, mid_names |-> m] >>] :
        a \in AddressForms, m \in SeqsUpTo(MidNameForms, MaxMidNames) }

\* top-layer record values: an IP literal, a relative name, a name whose text
\* happens to end with the text of the bottom domain, and a fully-qualified
\* name
TopValues == { <<V4>>, <<"svc">>, <<"vlan">>, <<"ext", "example", "">> }

TopRecordForms == { [value |-> v, line |-> l] : v \in TopValues, l \in { NoLine, "tel" } }

\* config.get("bottom", ""): absent, or one label
Bottoms == { <<>>, <<"lan">> }

\* what the resolver answers for the target of an apex CNAME
Answers4(m) == [k \in 1..m |-> "10.0.0." \o ToString(k)]
Answers6(n) == [k \in 1..n |-> "fd00::" \o ToString(k)]

ResolverAnswers ==
    { [status |-> "ok", v4 |-> Answers4(m), v6 |-> Answers6(n)] :
        m \in 0..MaxResolved, n \in 0..MaxResolved }
    \cup { [status |-> "NXDOMAIN", v4 |-> <<>>, v6 |-> <<>>] }

TopConfigs ==
    { [kind |-> "top", domain |-> D1, bottom |-> b, answer |-> a,
       domains |-> << [names |-> n, records |-> r, cnames |-> c] >>] :
        b \in Bottoms, a \in ResolverAnswers,
        n \in { << <<"@">> >>, << <<"www">> >>, << <<"@">>, <<"www">> >> },
        r \in SeqsUpTo(TopRecordForms, MaxTopRecords),
        c \in { <<>>, << <<"alias">> >>, << <<"@">> >> } }

\* candidate records handed to the validation that ends both expanders
CandidateForms ==
    { [name |-> <<"a">>, type |-> "A", content |-> <<V4>>, line |-> NoLine],
      [name |-> <<"a">>, type |-> "A", content |-> <<BadIP>>, line |-> NoLine],
      [name |-> <<"a">>, type |-> "A", content |-> <<"fd00::1">>, line |-> NoLine],
      [name |-> <<"a">>, type |-> "AAAA", content |-> <<"fd00::1">>, line |-> NoLine],
      [name |-> <<"a">>, type |-> "AAAA", content |-> <<V4>>, line |-> NoLine],
      [name |-> <<"c">>, type |-> "CNAME", content |-> <<"web", "0", D1>>, line |-> NoLine],
      [name |-> <<"c">>, type |-> "CNAME", content |-> <<"web", "1", D1, "">>, line |-> NoLine],
      [name |-> <<"c">>, type |-> "CNAME", content |-> <<"web", "1", D1, "">>, line |-> "tel"],
      [name |-> <<"c", "">>, type |-> "CNAME", content |-> <<"web", "0", D1, "">>, line |-> NoLine],
      [name |-> <<"@">>, type |-> "CNAME", content |-> <<"web", "0", D1, "">>, line |-> NoLine] }

CandidateConfigs ==
    { [kind |-> "candidates",
       records |-> [k \in 1..Len(c) |->
                       DNSRecord(c[k].name, c[k].type, c[k].content, TTL_NET, c[k].line,
                                 Comment(COMMENT_PREFIX_BOTTOM, "t1"), NoId)]] :
        c \in SeqsUpTo(CandidateForms, MaxCandidates) }

ExInit ==
    /\ CCIdle
    /\ RunIdle
    /\ ex_phase = "input"
    /\ ex_config \in BottomConfigs \cup TopConfigs \cup CandidateConfigs
    /\ ex_out = [status |-> "pending", records |-> <<>>]

\* Tetra.run, tetra.py:328-329, on a bottom-layer configuration
ExpandBottom ==
    /\ ex_phase = "input"
    /\ ex_config.kind = "bottom"
    /\ ex_out' = _parse_bottom_records(ex_config, Comment(COMMENT_PREFIX_BOTTOM, "t1"))
    /\ ex_phase' = "expanded"
    /\ UNCHANGED ex_config
    /\ UNCHANGED ccVars
    /\ UNCHANGED runVars

\* Tetra.run, tetra.py:330-331, on a top-layer configuration
ExpandTop ==
    /\ ex_phase = "input"
    /\ ex_config.kind = "top"
    /\ ex_out' = _parse_top_records(ex_config, Comment(COMMENT_PREFIX_TOP, "t1"))
    /\ ex_phase' = "expanded"
    /\ UNCHANGED ex_config
    /\ UNCHANGED ccVars
    /\ UNCHANGED runVars

\* tetra.py:243-251 / 317-325 on a candidate list
ValidateCandidates ==
    /\ ex_phase = "input"
    /\ ex_config.kind = "candidates"
    /\ ex_out' = Finish(ex_config.records)
    /\ ex_phase' = "expanded"
    /\ UNCHANGED ex_config
    /\ UNCHANGED ccVars
    /\ UNCHANGED runVars

ExNext == ExpandBottom \/ ExpandTop \/ ValidateCandidates

SpecExpand == ExInit /\ [][ExNext]_vars

(***************************************************************************)
(* Claims about record expansion (SpecExpand)                              *)
(***************************************************************************)
\* a bottom-layer configuration has been expanded / and the expansion returned
BottomExpanded == ex_phase = "expanded" /\ ex_config.kind = "bottom"
BottomReturned == BottomExpanded /\ ex_out.status = "ok"

\* the returned A/AAAA records with the given name
AddressRecordsNamed(name) ==
    SelectSeq(ex_out.records, LAMBDA r : r.type \in {"A", "AAAA"} /\ r.name = name)

\* the host's only addresses are one IPv4 address in a bare list
OneIPv4BareList(host) ==
    /\ host.addresses.form = "list"
    /\ Len(host.addresses.list) = 1
    /\ host.addresses.list[1] = V4

\* C11 as stated: a host whose only addresses are one IPv4 address a in a bare
\* list yields A records named <host>.0, <host>.1 and <host>.4, all three with
\* content a.
C11_BareIPv4InThreeZones ==
    (BottomReturned /\ OneIPv4BareList(ex_config.hosts[1])) =>
        \A z \in {"0", "1", "4"} :
            \E k \in 1..Len(ex_out.records) :
                /\ ex_out.records[k].name = <<ex_config.hosts[1].name, z>>
                /\ ex_out.records[k].type = "A"
                /\ ex_out.records[k].content = <<V4>>

\* C11 amended: such a host yields exactly one A record named <host>.0 and one
\* named <host>.4, both with content a, and no A/AAAA record named <host>.1:
\* zone 1 holds the one replicated address, as many as zone 0, and is dropped.
C11_BareIPv4InZones0And4 ==
    (BottomReturned /\ OneIPv4BareList(ex_config.hosts[1])) =>
        LET host == ex_config.hosts[1].name IN
        /\ \A z \in {"0", "4"} :
              /\ Len(AddressRecordsNamed(<<host, z>>)) = 1
              /\ AddressRecordsNamed(<<host, z>>)[1].type = "A"
              /\ AddressRecordsNamed(<<host, z>>)[1].content = <<V4>>
        /\ \A z \in {"1", "5", "6", "10"} : Len(AddressRecordsNamed(<<host, z>>)) = 0

C11_Witness ==
    /\ BottomReturned
    /\ OneIPv4BareList(ex_config.hosts[1])
    /\ Len(AddressRecordsNamed(<<"web", "0">>)) = 1
    /\ Len(AddressRecordsNamed(<<"web", "4">>)) = 1
    /\ Len(AddressRecordsNamed(<<"web", "1">>)) = 0

\* the per-zone record lists of the host after replication, before suppression
ReplicatedZones ==
    AddZones(<<>>, NormaliseAddresses(ex_config.hosts[1].addresses), 1,
             ex_config.hosts[1].name, Comment(COMMENT_PREFIX_BOTTOM, "t1")).records

ContentsOf(recs) == { recs[k].content : k \in 1..Len(recs) }

\* C12: when, after replication, the zone-0 and zone-1 record sets of a host
\* are non-empty and hold the same addresses, the expansion returns no A/AAAA
\* record named <host>.1.
C12_SameAddressesSuppressZone1 ==
    (/\ BottomReturned
     /\ DictHas(ReplicatedZones, 0)
     /\ DictHas(ReplicatedZones, 1)
     /\ ContentsOf(DictGet(ReplicatedZones, 0)) # {}
     /\ ContentsOf(DictGet(ReplicatedZones, 0)) = ContentsOf(DictGet(ReplicatedZones, 1)))
        => Len(AddressRecordsNamed(<<ex_config.hosts[1].name, "1">>)) = 0

\* the addresses mapping of the host has a key for a reserved zone: a zone
\* number below 10 other than 0 and 1
HasReservedZoneKey(host) ==
    /\ host.addresses.form = "map"
    /\ \E k \in 1..Len(host.addresses.items) :
          /\ host.addresses.items[k].zone < 10
          /\ host.addresses.items[k].zone \notin {0, 1}

\* C13: when the addresses mapping of a host has a key for a zone below 10
\* other than 0 and 1, whatever the value under that key, the expansion ends
\* in an error and returns no record set.
C13_ReservedZoneKeyIsFatal ==
    (BottomExpanded /\ HasReservedZoneKey(ex_config.hosts[1])) =>
        (ex_out.status # "ok" /\ ex_out.records = <<>>)

\* C14: a record set that passed validation holds at most one CNAME per
\* (name, line) pair, because validation fails whenever two CNAME candidates
\* share their name and their line.
C14_OneCnamePerNameAndLine ==
    (ex_phase = "expanded" /\ ex_out.status = "ok") =>
        \A i, j \in 1..Len(ex_out.records) :
            (/\ i # j
             /\ ex_out.records[i].type = "CNAME"
             /\ ex_out.records[j].type = "CNAME"
             /\ ex_out.records[i].name = ex_out.records[j].name)
                => ex_out.records[i].line # ex_out.records[j].line

\* the record invariants of a returned record
RecordInvariants(r) ==
    /\ r.name[Len(r.name)] # ""
    /\ r.type = "CNAME" => (r.name # <<"@">> /\ r.content[Len(r.content)] = "")
    /\ r.type = "A" => (Len(r.content) = 1 /\ r.content[1] \in IPv4Literals)
    /\ r.type = "AAAA" => (Len(r.content) = 1 /\ r.content[1] \in IPv6Literals)

\* the content without its trailing dot
Undotted(content) ==
    IF content[Len(content)] = "" THEN SubSeq(content, 1, Len(content) - 1) ELSE content

\* candidates that break no invariant other than the trailing dot of CNAME
\* content, and no two of which share a name
OnlyDotsMissing(candidates) ==
    /\ \A k \in 1..Len(candidates) :
          RecordInvariants([candidates[k] EXCEPT !.content =
              IF candidates[k].type = "CNAME" THEN Undotted(@) \o <<"">> ELSE @])
    /\ \A i, j \in 1..Len(candidates) : i # j => candidates[i].name # candidates[j].name

\* C15: every record a successful expansion returns satisfies the record
\* invariants (name without trailing dot, no CNAME named @, CNAME content with
\* trailing dot, A content a valid IPv4 literal, AAAA content a valid IPv6
\* literal); a CNAME candidate whose content lacks the dot is returned with
\* the dot appended, not rejected; a candidate A record whose content is not a
\* valid IPv4 literal makes validation fail.
C15_ReturnedRecordsAreValid ==
    /\ (ex_phase = "expanded" /\ ex_out.status = "ok") =>
          \A k \in 1..Len(ex_out.records) : RecordInvariants(ex_out.records[k])
    /\ (ex_phase = "expanded" /\ ex_config.kind = "candidates") =>
          /\ OnlyDotsMissing(ex_config.records) =>
                /\ ex_out.status = "ok"
                /\ Len(ex_out.records) = Len(ex_config.records)
                /\ \A k \in 1..Len(ex_config.records) :
                      /\ Undotted(ex_out.records[k].content) = Undotted(ex_config.records[k].content)
                      /\ ex_out.records[k].name = ex_config.records[k].name
          /\ (\E k \in 1..Len(ex_config.records) :
                 /\ ex_config.records[k].type = "A"
                 /\ ex_config.records[k].content[1] \notin IPv4Literals)
                => ex_out.status # "ok"

C15_Witness ==
    /\ BottomReturned
    /\ \E k \in 1..Len(ex_out.records) : ex_out.records[k].type = "A"
    /\ \E k \in 1..Len(ex_out.records) : ex_out.records[k].type = "AAAA"
    /\ \E k \in 1..Len(ex_out.records) : ex_out.records[k].type = "CNAME"

TopExpanded == ex_phase = "expanded" /\ ex_config.kind = "top"
TopReturned == TopExpanded /\ ex_out.status = "ok"

\* how many positions of a list satisfy a test
CountIf(lst, Test(_)) == Cardinality({ k \in 1..Len(lst) : Test(lst[k]) })

\* the value of a top-layer record entry is an IP literal
IsLiteral(value) == Len(value) = 1 /\ value[1] \in IPv4Literals \cup IPv6Literals

\* the apex CNAME candidates of the one alias group that carry the given line:
\* one per (apex name, non-literal record value), and one per cnames entry "@"
ApexCnames(group, line) ==
    CountIf(group.names, LAMBDA n : n = <<"@">>)
        * CountIf(group.records, LAMBDA r : ~IsLiteral(r.value) /\ r.line = line)
    + (IF line = NoLine THEN CountIf(group.cnames, LAMBDA c : c = <<"@">>) ELSE 0)

\* the apex records the group asks for directly, by an IP literal
ApexLiterals(group, line, content) ==
    CountIf(group.names, LAMBDA n : n = <<"@">>)
        * CountIf(group.records, LAMBDA r : r.value = content /\ r.line = line)

\* C16: when the top-layer candidates hold CNAMEs named @ and their target
\* resolves to m IPv4 and n IPv6 addresses, the expansion returns no CNAME
\* named @ and, for each such entry, exactly one A record per resolved IPv4
\* address and one AAAA record per resolved IPv6 address, named @ and carrying
\* the ttl, line and comment of the entry; a group with the apex as its only
\* name expands successfully whenever the resolver answers.
C16_ApexCnameFlattened ==
    LET group  == ex_config.domains[1]
        answer == ex_config.answer
        Apex(type, line, content) ==
            CountIf(ex_out.records,
                    LAMBDA r : /\ r.name = <<"@">> /\ r.type = type /\ r.line = line
                               /\ r.content = content /\ r.ttl = TTL_TOP
                               /\ r.comment = Comment(COMMENT_PREFIX_TOP, "t1"))
    IN
    /\ (TopExpanded /\ answer.status = "ok" /\ group.names = << <<"@">> >>)
          => ex_out.status = "ok"
    /\ TopReturned =>
          /\ \A k \in 1..Len(ex_out.records) :
                ex_out.records[k].name = <<"@">> =>
                    /\ ex_out.records[k].type # "CNAME"
                    /\ ex_out.records[k].ttl = TTL_TOP
                    /\ ex_out.records[k].comment = Comment(COMMENT_PREFIX_TOP, "t1")
          /\ \A line \in {NoLine, "tel"} :
                /\ \A a \in IPv4Literals :
                      Apex("A", line, <<a>>) =
                          ApexCnames(group, line) * CountIf(answer.v4, LAMBDA x : x = a)
                          + ApexLiterals(group, line, <<a>>)
                /\ \A a \in IPv6Literals :
                      Apex("AAAA", line, <<a>>) =
                          ApexCnames(group, line) * CountIf(answer.v6, LAMBDA x : x = a)
                /\ CountIf(ex_out.records,
                           LAMBDA r : r.name = <<"@">> /\ r.line = line /\ r.type = "A") =
                      ApexCnames(group, line) * Len(answer.v4)
                      + CountIf(group.names, LAMBDA n : n = <<"@">>)
                          * CountIf(group.records,
                                    LAMBDA r : r.value[1] \in IPv4Literals /\ r.line = line)
                /\ CountIf(ex_out.records,
                           LAMBDA r : r.name = <<"@">> /\ r.line = line /\ r.type = "AAAA") =
                      ApexCnames(group, line) * Len(answer.v6)

\* one apex CNAME on line "tel", one IPv4 and one IPv6 address in the answer:
\* exactly one A and one AAAA at the apex, both on line "tel"
C16_Witness ==
    /\ TopReturned
    /\ ApexCnames(ex_config.domains[1], "tel") = 1
    /\ ApexCnames(ex_config.domains[1], NoLine) = 0
    /\ Len(ex_config.answer.v4) = 1
    /\ Len(ex_config.answer.v6) = 1
    /\ CountIf(ex_out.records, LAMBDA r : r.name = <<"@">>) = 2
    /\ \E k \in 1..Len(ex_out.records) :
          /\ ex_out.records[k].name = <<"@">> /\ ex_out.records[k].type = "A"
          /\ ex_out.records[k].line = "tel" /\ ex_out.records[k].content = <<"10.0.0.1">>
    /\ \E k \in 1..Len(ex_out.records) :
          /\ ex_out.records[k].name = <<"@">> /\ ex_out.records[k].type = "AAAA"
          /\ ex_out.records[k].line = "tel" /\ ex_out.records[k].content = <<"fd00::1">>

\* C19: in the output of bottom-layer expansion every A/AAAA record named
\* <host>.0 carries the host TTL 43200 and every A/AAAA record named <host>.<z>
\* with z other than 0 carries the TTL 1, the records replicated into zones 1,
\* 4 and 6 from a zone-0 address included.
C19_AddressTtlByZone ==
    BottomReturned =>
        \A k \in 1..Len(ex_out.records) :
            ex_out.records[k].type \in {"A", "AAAA"} =>
                ex_out.records[k].ttl =
                    IF ex_out.records[k].name[2] = "0" THEN 43200 ELSE 1

\* the zone texts of the inputs and the suffix each one stands for
ZoneTexts == { "0", "1", "4", "5", "6", "10" }

SuffixOf(z) ==
    CASE z = "0" -> "-phy" [] z = "1" -> "-ext" [] z = "4" -> "-ip4"
      [] z = "6" -> "-ip6" [] OTHER -> "-z" \o z

\* the zones for which the expansion returned address records
PopulatedZones ==
    { z \in ZoneTexts : Len(AddressRecordsNamed(<<ex_config.hosts[1].name, z>>)) > 0 }

\* the output holds a CNAME with the given name, content and ttl
HasCname(name, content, ttl) ==
    \E k \in 1..Len(ex_out.records) :
        /\ ex_out.records[k].type = "CNAME"
        /\ ex_out.records[k].name = name
        /\ ex_out.records[k].content = content
        /\ ex_out.records[k].ttl = ttl

\* C17: a mid-name <net>-v<k> (svc-v1 in the inputs, <net> = svc) marked
\* current with current_zone 0 yields a CNAME <net> with content
\* <net>-v<k>.<domain>. and TTL 1, and for every populated zone z of the host
\* a CNAME <net>-v<k><suffix(z)> with content <host>.<z>.<domain>. and TTL
\* 86400; on a host whose addresses are a bare list of IP literals and whose
\* mid-names are all of this kind the expansion succeeds.
C17_CurrentVersionAlias ==
    LET host == ex_config.hosts[1]
        IsCurrentVersion(mid) ==
            mid.name = "svc-v1" /\ mid.current /\ mid.has_zone /\ mid.current_zone = 0
    IN
    /\ (/\ BottomExpanded
        /\ host.addresses.form = "list"
        /\ host.addresses.list \in { <<V4>>, <<V6>>, <<V4, V6>> }
        /\ \A m \in 1..Len(host.mid_names) : IsCurrentVersion(host.mid_names[m]))
          => ex_out.status = "ok"
    /\ BottomReturned =>
          \A m \in 1..Len(host.mid_names) :
              IsCurrentVersion(host.mid_names[m])
              => /\ HasCname(<<"svc">>, <<"svc-v1", ex_config.domain, "">>, 1)
                 /\ \A z \in PopulatedZones :
                       HasCname(<<"svc-v1" \o SuffixOf(z)>>,
                                <<host.name, z, ex_config.domain, "">>, 86400)

\* zones 0, 4 and 10 are populated and the current version alias is there
C17_Witness ==
    /\ BottomReturned
    /\ Len(ex_config.hosts[1].mid_names) = 1
    /\ ex_config.hosts[1].mid_names[1] = MidNameEntry("svc-v1", TRUE, TRUE, 0)
    /\ PopulatedZones = { "0", "4", "10" }
    /\ HasCname(<<"svc">>, <<"svc-v1", D1, "">>, 1)
    /\ HasCname(<<"svc-v1-z10">>, <<"web", "10", D1, "">>, 86400)
    /\ HasCname(<<"svc-v1-ip4">>, <<"web", "4", D1, "">>, 86400)

ZoneNumbers == { 0, 1, 4, 5, 6, 10 }

\* the zone keys the host gives with an empty address list
GivenEmpty(host) ==
    CASE host.addresses.form = "map" ->
             { host.addresses.items[k].zone : k \in { i \in 1..Len(host.addresses.items) :
                                                         Len(host.addresses.items[i].addrs) = 0 } }
      [] host.addresses.form = "list" -> IF Len(host.addresses.list) = 0 THEN {0} ELSE {}
      [] OTHER -> {}

\* zone 1 is given empty and zone 0 is given with addresses after it: zone 1
\* is then filled by replication only and suppressed
Zone1Refilled(host) ==
    /\ host.addresses.form = "map"
    /\ \E i, j \in 1..Len(host.addresses.items) :
          /\ i < j
          /\ host.addresses.items[i].zone = 1 /\ Len(host.addresses.items[i].addrs) = 0
          /\ host.addresses.items[j].zone = 0 /\ Len(host.addresses.items[j].addrs) > 0

\* the zones the host has a record list for: the zones with returned address
\* records and the zones given with an empty address list
ListedZones(host) ==
    { z \in ZoneNumbers : ToString(z) \in PopulatedZones }
    \cup (GivenEmpty(host) \ (IF Zone1Refilled(host) THEN {1} ELSE {}))

\* the least element, -1 for the empty set
MinOf(S) == IF S = {} THEN 0 - 1 ELSE CHOOSE z \in S : \A y \in S : z <= y

TextStartsWith(text, prefix) ==
    Len(prefix) <= Len(text) /\ SubSeq(text, 1, Len(prefix)) = prefix

\* the direct aliases among the mid-names of the host (db in the inputs)
DirectAliases(host) == { m \in 1..Len(host.mid_names) : host.mid_names[m].name = "db" }

Nth(S, k) == CHOOSE x \in S : Cardinality({ y \in S : y <= x }) = k

\* the positions left after the exact-match pass with force = false: the j-th
\* record of a list with given fields is matched while the other list holds at
\* least j records with those fields
Unmatched(lst, other) ==
    { k \in 1..Len(lst) :
        Cardinality({ j \in 1..k : Fields(lst[j]) = Fields(lst[k]) })
            > Count(other, Fields(lst[k])) }

\* the place of position k among the positions of S with its (name, type)
RankIn(lst, S, k) ==
    Cardinality({ j \in S : j <= k /\ lst[j].name = lst[k].name /\ lst[j].type = lst[k].type })

\* the positions of S with the (name, type) of record r
SameKind(lst, S, r) == { j \in S : lst[j].name = r.name /\ lst[j].type = r.type }

\* C21: with force = false the pending records left after the exact-match
\* pass are taken in pending-list order, and the k-th of them with a given
\* (name, type) adopts the id of the k-th unmatched live record of that
\* (name, type) in fetch order; it is added when there is no such record, and
\* the unmatched live records beyond the number of such pending records, the
\* later-fetched ones, are the ones in deleting.
C21_SimilarityInFetchOrder ==
    (cc_phase = "compared" /\ ~cc_force) =>
        LET P == Unmatched(cc_pending, cc_old)
            L == Unmatched(cc_old, cc_pending)
            Adopts(p)  == RankIn(cc_pending, P, p) <= Cardinality(SameKind(cc_old, L, cc_pending[p]))
            Adopted(p) == cc_old[Nth(SameKind(cc_old, L, cc_pending[p]), RankIn(cc_pending, P, p))]
            U == { p \in P : Adopts(p) }
            A == P \ U
            D == { l \in L : RankIn(cc_old, L, l) > Cardinality(SameKind(cc_pending, P, cc_old[l])) }
        IN  /\ cc_result.updating =
                  [k \in 1..Cardinality(U) |->
                      [cc_pending[Nth(U, k)] EXCEPT !.id = Adopted(Nth(U, k)).id]]
            /\ cc_result.adding = [k \in 1..Cardinality(A) |-> cc_pending[Nth(A, k)]]
            /\ cc_result.deleting = [k \in 1..Cardinality(D) |-> cc_old[Nth(D, k)]]

\* three unmatched live records of one (name, type) and two unmatched pending
\* records of it: the first two are adopted in order, the third is deleted
C21_Witness ==
    /\ cc_phase = "compared"
    /\ ~cc_force
    /\ Len(cc_old) = 3
    /\ Len(cc_pending) = 2
    /\ \A k \in 1..3 : Sims(cc_old[k], cc_pending[1]) /\ Sims(cc_old[k], cc_pending[2])
    /\ Unmatched(cc_old, cc_pending) = {1, 2, 3}
    /\ ~Eq(cc_old[1], cc_old[2])
    /\ Len(cc_result.updating) = 2
    /\ cc_result.updating[1].id = cc_old[1].id
    /\ cc_result.updating[2].id = cc_old[2].id
    /\ cc_result.deleting = <<cc_old[3]>>

\* C22: the output of a successful bottom-layer expansion is internally
\* consistent: every CNAME with content <host>.<zone>.<domain>. has an A or
\* AAAA record named <host>.<zone> in the output, and every CNAME with content
\* <alias>.<domain>. has a CNAME named <alias> in the output.
C22_AliasesPointAtEmittedNames ==
    BottomReturned =>
        \A k \in 1..Len(ex_out.records) :
            LET r == ex_out.records[k] IN
            r.type = "CNAME" =>
                /\ (Len(r.content) = 4 /\ r.content[1] = ex_config.hosts[1].name)
                      => Len(AddressRecordsNamed(<<r.content[1], r.content[2]>>)) > 0
                /\ Len(r.content) = 3
                      => \E j \in 1..Len(ex_out.records) :
                            /\ ex_out.records[j].type = "CNAME"
                            /\ ex_out.records[j].name = <<r.content[1]>>

\* C23: for every input and either force, no record of adding has the (name,
\* type) of a record of deleting.
C23_NoAddAndDeleteOfOneKind ==
    cc_phase # "input" =>
        \A a \in 1..Len(cc_result.adding) :
            \A d \in 1..Len(cc_result.deleting) :
                \/ cc_result.adding[a].name # cc_result.deleting[d].name
                \/ cc_result.adding[a].type # cc_result.deleting[d].type

\* pending records of one (name, type) outnumber the live ones, so one is
\* added, while a live record of another (name, type) is deleted
C23_Witness ==
    /\ cc_phase = "compared"
    /\ Len(cc_result.adding) > 0
    /\ Len(cc_result.updating) > 0
    /\ Len(cc_result.deleting) > 0
    /\ cc_result.adding[1].name = cc_result.updating[1].name
    /\ cc_result.adding[1].type = cc_result.updating[1].type

\* the live record that carries the given id
LiveWithId(id) == cc_old[CHOOSE j \in 1..Len(cc_old) : cc_old[j].id = id]

\* C24: for every input and either force, each record of updating has the
\* name and the type of the live record whose id it carries.
C24_UpdateKeepsNameAndType ==
    cc_phase # "input" =>
        \A u \in 1..Len(cc_result.updating) :
            /\ cc_result.updating[u].id \in IdsOf(cc_old)
            /\ cc_result.updating[u].name = LiveWithId(cc_result.updating[u].id).name
            /\ cc_result.updating[u].type = LiveWithId(cc_result.updating[u].id).type

\* an update that changes the content of a live record while a live record of
\* another name is in the pool before it
C24_Witness ==
    /\ cc_phase = "compared"
    /\ Len(cc_result.updating) > 0
    /\ Len(cc_old) > 1
    /\ cc_force
    /\ cc_old[1].name # cc_result.updating[1].name
    /\ cc_result.updating[1].content # LiveWithId(cc_result.updating[1].id).content

\* C25: with force = false no record of updating is equal in name, type,
\* content, ttl and line to the live record whose id it carries, and no record
\* of adding is equal in these fields to a record of deleting.
C25_NoNoOpChange ==
    (cc_phase # "input" /\ ~cc_force) =>
        /\ \A u \in 1..Len(cc_result.updating) :
              Fields(cc_result.updating[u]) # Fields(LiveWithId(cc_result.updating[u].id))
        /\ \A a \in 1..Len(cc_result.adding) :
              \A d \in 1..Len(cc_result.deleting) :
                  Fields(cc_result.adding[a]) # Fields(cc_result.deleting[d])

\* an unchanged record is left alone while another of its (name, type) is updated
C25_Witness ==
    /\ cc_phase = "compared"
    /\ ~cc_force
    /\ Len(cc_pending) = 2
    /\ Len(cc_result.updating) = 1
    /\ cc_result.adding = <<>>
    /\ \E j \in 1..Len(cc_old) : Fields(cc_old[j]) = Fields(cc_pending[1])
    /\ cc_result.updating[1].name = cc_pending[1].name
    /\ cc_result.updating[1].type = cc_pending[1].type

(***************************************************************************)
(* A run over one top-layer domain whose records may carry a line          *)
(* (SpecLine): tetra.py:280-290 passes record.get("line") to the records   *)
(***************************************************************************)
\* candidate records of the top-layer domain: one on the default line and two
\* on the line "tel"
LineCandidates ==
    { DNSRecord(<<"www">>, "A", IP2, TTL_TOP, NoLine, Comment(COMMENT_PREFIX_TOP, "t1"), NoId),
      DNSRecord(<<"www">>, "A", IP1, TTL_TOP, "tel", Comment(COMMENT_PREFIX_TOP, "t1"), NoId),
      DNSRecord(<<"x">>, "A", IP1, TTL_TOP, "tel", Comment(COMMENT_PREFIX_TOP, "t1"), NoId) }

\* records of this layer the provider may hold for the domain
LineSeeds ==
    { SecondSeed,
      DNSRecord(<<"x">>, "A", IP1, TTL_TOP, NoLine, Comment(COMMENT_PREFIX_TOP, "t0"), NoId) }

LineConfigs ==
    { [backend |-> b, layer |-> "top", expands |-> TRUE, ans |-> a, seeds |-> sd] :
        b \in Backends,
        a \in SeqsUpTo(LineCandidates, RunMaxPending),
        sd \in SeqsUpTo(LineSeeds, RunMaxLive) }

\* the other domain of the configuration file is not selected by -d
UnselectedConfig ==
    [backend |-> "dnspod", layer |-> "bottom", expands |-> TRUE, ans |-> <<>>, seeds |-> <<>>]

\* main with -d <domain>, tetra.py:375-377
LineInit ==
    /\ CCIdle
    /\ ExIdle
    /\ pc = "construct"
    /\ todo = <<D2>>
    /\ cur = 1
    /\ args \in [force : BOOLEAN, dry_run : BOOLEAN]
    /\ \E c2 \in LineConfigs :
          /\ config = [d \in Domains |-> IF d = D1 THEN UnselectedConfig ELSE c2]
          /\ provider = [d \in Domains |->
                Provider0([e \in Domains |-> IF e = D1 THEN UnselectedConfig ELSE c2], d)]
    /\ nextId = 2 * RunMaxLive + 3
    /\ pending = <<>>
    /\ plan = <<>>
    /\ step = 0
    /\ calls = <<>>
    /\ prompted = [d \in Domains |-> "unasked"]
    /\ changeset = [d \in Domains |-> NoChangeset]
    /\ fetched = [d \in Domains |-> <<>>]
    /\ failure = "none"

SpecLine == LineInit /\ [][Next]_vars

\* C26: with the Cloudflare backend, when a record of adding or updating
\* carries a line, update_records fails without having issued any update,
\* delete or create: the provider's records are those it held before the run.
C26_LineAssertBeforeAnyCall ==
    (failure = "assert") =>
        /\ \A k \in 1..Len(calls) : ~Mutating(calls[k])
        /\ provider = [d \in Domains |-> Provider0(config, d)]

============================================================================
